---- MODULE Spec2Model ----
(***************************************************************************)
(* Model of paperfilter's Session (src/paperfilter/session.cpp): the       *)
(* wiring of the packet queue, the dissector workers, the packet store,    *)
(* the stream dispatcher, the named filter groups and the two coalescing   *)
(* host channels (status, log).                                            *)
(*                                                                         *)
(* session.cpp is translated line by line.  The collaborators it only      *)
(* calls (PacketQueue, PacketStore, DissectorThread, StreamDispatcher,     *)
(* FilterThread, SequenceSet) are modelled from their description in the   *)
(* design document, sections 4.1 to 4.6.                                   *)
(***************************************************************************)
EXTENDS Integers, Sequences, FiniteSets, TLC

\* ------------------------------------------------------------------ bounds

\* Packets the frame source hands to Session::analyze in one run.
MaxPackets == 2
\* Virtual layers the stream dissectors emit in one run.
MaxVirtual == 2
\* Calls the host makes on the control surface in one run.
MaxHostCalls == 3
\* Calls of Private::log in one run.
MaxLogs == 3

\* Session::filter calls among them.
MaxFilterCalls == 2
MaxFaults == 2

\* FilterThread: the sequences a worker claims at once.
FilterBatch == 2

\* ------------------------------------------------------------- input sets

\* Values of the "threads" option (session.cpp:153).
ConfiguredThreads == {0, 3}

\* Stream keys (namespace, stream-id, direction) packet dissectors emit to.
PacketKeys == {"tcp1", "tcp2"}
\* Stream keys the stream dissectors re-inject to: the stream carried by a key.
UpperKeys == {"app1", "app2"}
StreamKeys == PacketKeys \cup UpperKeys

\* The stream a stream dissector re-injects chunks to (design 4.5 (a)).
UpperOf(k) == IF k = "tcp1" THEN "app1" ELSE "app2"

\* What a packet dissector emits for one chunk: its key, the number of virtual
\* layers the stream dissector produces when it reads the chunk, and whether the
\* stream dissector re-injects a chunk for the upper stream.
ChunkShapes ==
  { [key |-> "tcp1", vps |-> 1, re |-> TRUE],
    [key |-> "tcp1", vps |-> 0, re |-> FALSE],
    [key |-> "tcp2", vps |-> 2, re |-> FALSE] }

\* The chunk lists the dissector chain produces for a raw packet.
PacketShapes ==
  { <<>>,
    << [key |-> "tcp1", vps |-> 1, re |-> TRUE],
       [key |-> "tcp1", vps |-> 0, re |-> FALSE] >>,
    << [key |-> "tcp2", vps |-> 2, re |-> FALSE] >> }

\* Names the host installs filter groups under, and the filter expressions.
FilterNames == {"a"}
FilterExprs == {"", "true", "false", "even"}

\* session.cpp:55: threads is an int; the least and the greatest int.
IntMax == 2147483647
IntMin == -IntMax - 1

\* Values of the "threads" option the host passes.
ThreadOptions == {IntMin, -1, 0, 1, 2, 3}

\* LogMessage::key() of the messages the workers log.
LogKeys == {"k1", "k2"}

None == [none |-> TRUE]

VARIABLES
  threads,           \* Private::threads
  queue,             \* Private::queue: the packets waiting
  closed,            \* Private::queue: closed
  store,             \* Private::store: store[seq] is the packet with that sequence
  storeLock,         \* Private::store: the worker inside insert, or 0
  seqOf,             \* Packet::seq of every packet made so far (0: not assigned)
  dpc,               \* DissectorThread: position of each worker
  dpkt,              \* DissectorThread: the packet a worker holds
  dseq,              \* DissectorThread: the sequence insert gave that packet
  dispChunks,        \* StreamDispatcher: chunk lists held back, by origin sequence
  dispSeq,           \* StreamDispatcher: highest origin sequence passed on
  streamQ,           \* StreamDispatcher: each stream worker's chunk queue
  spc,               \* stream worker position
  sout,              \* stream worker: output of the dissector call in progress
  delivered,         \* chunks each stream dissector has read, by key, in order
  emitted,           \* chunks emitted so far, by key
  analyzed,          \* packets handed to Session::analyze
  vpLayers,          \* virtual layers passed to vpLayersCb
  heldBack,          \* origin sequences the dispatcher has held back for a gap
  statusPending,     \* statusCbAsync: wakeups sent and not yet consumed by the loop
  statusRaises,      \* uv_async_send(&statusCbAsync) calls so far
  windowRaises,      \* those made since the loop last consumed a wakeup
  filterThreads,     \* Private::filterThreads: name -> FilterContext
  orphans,           \* workers of erased groups still finishing an item
  filterGen,         \* FilterContexts made so far
  lastExpr,          \* the expression of the last filter(name, expr) call, by name
  capturing,         \* Private::capturing
  statusCb,          \* Private::statusCb is set
  hpc,               \* host loop: position inside the statusCbAsync handler
  hsnap,             \* the status object the handler is filling
  statusLog,         \* the last two payloads statusCb was called with
  statusCalls,       \* calls of statusCb so far
    drainRaises,       \* the sends coalesced into the handler run last started
  hostCalls,         \* control-surface calls so far, in order
  recentLogs,        \* Private::recentLogs: key -> LogMessage
  logPending,        \* logCbAsync: wakeups sent and not yet consumed
  logCb,             \* Private::logCb is set
  logBatch,          \* the records the last handler run handed to logCb
  logCalls,          \* calls of logCb in the last handler run
  logRuns,           \* runs of the logCbAsync handler so far
  logCount,          \* Private::log calls so far
  lpc,               \* a thread inside Private::log: between the insert and the send
  logSinceRun,       \* per key, the message last logged since the last handler run
  logSinceSwap,      \* per key, the message last logged since the map was last swapped
  option,            \* the argument of Session::Session
  pcap,              \* Private::pcap: "null", or the frame source "stopped" or "running"
  streamDispatcher,  \* Private::streamDispatcher is not null
  dtor,              \* position of Private::~Private, "alive" before it
  crashed,           \* a thread has dereferenced a null pointer
  faults,            \* runtime errors dissectors have raised so far
  closeMark          \* the packets made when queue.close() was called

pipeVars == <<threads, queue, closed, store, storeLock, seqOf, dpc, dpkt, dseq,
              dispChunks, dispSeq, streamQ, spc, sout, delivered, emitted,
              analyzed, vpLayers, heldBack>>
sendVars == <<statusPending, statusRaises, windowRaises>>
filterVars == <<filterThreads, orphans, filterGen, lastExpr>>
hostVars == <<capturing, statusCb, hpc, hsnap, statusLog, statusCalls,
              drainRaises, hostCalls>>
logVars == <<recentLogs, logPending, logCb, logBatch, logCalls, logRuns, logCount,
             lpc, logSinceRun, logSinceSwap>>

envVars == <<option, pcap, streamDispatcher, dtor, crashed, faults, closeMark>>

vars == <<pipeVars, sendVars, filterVars, hostVars, logVars, envVars>>

\* ------------------------------------------------------------ pure helpers

Max(a, b) == IF a >= b THEN a ELSE b
Min(a, b) == IF a <= b THEN a ELSE b

\* session.cpp:154: d->threads = std::max(1, d->threads - 1)
ThreadCount(c) == Max(1, c - 1)

Workers == 1 .. threads

\* session.cpp:154: std::max(1, d->threads - 1) on ints.  For the least int
\* the subtraction overflows, which is undefined: the build either wraps it to
\* the greatest int or folds the comparison as if it had not overflowed.
ThreadCounts(c) == IF c = IntMin THEN {1, IntMax} ELSE {ThreadCount(c)}

\* session.cpp:191-193: the constructor's loops create threads workers; the
\* process cannot hold IntMax threads and fails while creating them.
Creatable(n) == n < IntMax

\* The argument of Session::Session: an object with a "threads" option, or a
\* value that is empty or not an object (session.cpp:144).
OptionObject(c) == [object |-> TRUE, threads |-> c]
NoOption == [object |-> FALSE]

\* Values the uninitialised Private::threads (session.cpp:55) may hold.
IndeterminateInts == {-1, 0, 2}

\* The workers of each pool the constructor has created (session.cpp:191-196).
Created(opt) == IF opt.object /\ Creatable(threads) THEN Workers ELSE {}

\* StreamDispatcher: the worker a stream key is hashed to (design 4.5).
HashOf(k) == CASE k = "tcp1" -> 0 [] k = "tcp2" -> 1 [] k = "app1" -> 1 [] OTHER -> 0
WorkerOf(k) == (HashOf(k) % threads) + 1

\* Order key of a chunk: origin sequence, then intra-packet index.
OrdLess(a, b) == a.seq < b.seq \/ (a.seq = b.seq /\ a.idx < b.idx)

\* The chunks the dissector chain collected for a packet, stamped with the
\* sequence the store gave the packet.
ChunksOf(pkt, seq) ==
  [i \in 1 .. Len(pkt.shape) |->
     [key |-> pkt.shape[i].key, seq |-> seq, idx |-> i - 1,
      vps |-> pkt.shape[i].vps, re |-> pkt.shape[i].re]]

\* The chunk a stream dissector re-injects when it has read chunk c.
UpperChunk(c) ==
  [key |-> UpperOf(c.key), seq |-> c.seq, idx |-> c.idx, vps |-> 0, re |-> FALSE]

\* uv_async_send(&statusCbAsync): the handle is marked pending; sends made
\* before the loop consumes the wakeup coalesce into it.
StatusSend_Queued(p) == p + 1
StatusSend(p) == 1

\* session.cpp:121, 239, 247, 316, 322: uv_async_send(&statusCbAsync)
Raise ==
  /\ statusPending' = StatusSend(statusPending)
  /\ statusRaises' = statusRaises + 1
  /\ windowRaises' = windowRaises + 1

\* PacketQueue::push: a silent no-op once the queue is closed.
QueuePush(q, isClosed, pkt) == IF isClosed THEN q ELSE Append(q, pkt)

\* PacketStore::insert, the write: the packet is stored under its sequence.
StoreWrite(s, seq, pkt) ==
  IF seq = Len(s) + 1 THEN Append(s, pkt) ELSE [s EXCEPT ![seq] = pkt]

\* PacketStore::maxSeq
MaxSeq == Len(store)

\* PacketStore::insert is serialized by the store's mutex.
StoreMutexFree_Unlocked == TRUE
StoreMutexFree == storeLock = 0

\* StreamDispatcher::insert(chunks): each chunk goes to the queue of the worker
\* its stream key hashes to, in the order given.
RECURSIVE DispRoute(_, _)
DispRoute(q, chunks) ==
  IF chunks = <<>> THEN q
  ELSE LET c == Head(chunks)
           w == WorkerOf(c.key)
       IN DispRoute([q EXCEPT ![w] = Append(@, c)], Tail(chunks))

\* StreamDispatcher::insert(originSeq, chunks), the release loop: chunk lists
\* are passed on in origin-sequence order, a gap holds the later ones back.
RECURSIVE DispFlush(_)
DispFlush(d) ==
  IF (d.seq + 1) \in DOMAIN d.chunks
  THEN DispFlush([chunks |-> [s \in (DOMAIN d.chunks) \ {d.seq + 1} |-> d.chunks[s]],
                  seq    |-> d.seq + 1,
                  q      |-> DispRoute(d.q, d.chunks[d.seq + 1])])
  ELSE d

\* StreamDispatcher::insert(originSeq, chunks)
DispInsertSeq(d, seq, chunks) ==
  DispFlush([d EXCEPT !.chunks =
               [s \in (DOMAIN d.chunks) \cup {seq} |->
                  IF s = seq THEN chunks ELSE d.chunks[s]]])

\* StreamDispatcher::insert(chunks)
DispInsert(d, chunks) == [d EXCEPT !.q = DispRoute(d.q, chunks)]

Dispatcher == [chunks |-> dispChunks, seq |-> dispSeq, q |-> streamQ]

\* session.cpp:184-187: dissCtx->streamsCb
dissStreamsCb_Unordered(d, seq, chunks) == DispInsert(d, chunks)
dissStreamsCb_SkipEmpty(d, seq, chunks) ==
  IF chunks = <<>> THEN d ELSE DispInsertSeq(d, seq, chunks)
dissStreamsCb(d, seq, chunks) == DispInsertSeq(d, seq, chunks)

\* session.cpp:200-203: streamCtx->streamsCb
streamStreamsCb_Dropped(d, chunks) == d
streamStreamsCb(d, chunks) == DispInsert(d, chunks)

\* The chunks of a list added to the per-key record of what was emitted.
RECURSIVE Emit(_, _)
Emit(e, chunks) ==
  IF chunks = <<>> THEN e
  ELSE Emit([e EXCEPT ![Head(chunks).key] = @ \cup {Head(chunks)}], Tail(chunks))

\* Virtual layers the stream dissectors have produced and not yet passed to
\* vpLayersCb.
RECURSIVE SumLayers(_)
SumLayers(S) ==
  IF S = {} THEN 0
  ELSE LET w == CHOOSE x \in S : TRUE
       IN (IF spc[w] = "emit" THEN sout[w].layers ELSE 0) + SumLayers(S \ {w})

VpMade == Cardinality({ id \in DOMAIN seqOf : id[1] = "vp" })

\* ------------------------------------------------------------------- Init

\* session.cpp:143-217: the state after Session::Session(option).  With an
\* option object the constructor reads the "threads" option, creates that
\* many dissector workers, the stream dispatcher with as many stream workers,
\* and the frame source (146-216).  Otherwise it returns at once (144-145):
\* no worker, no dispatcher and no frame source are created, and threads,
\* which has no initialiser (55), holds an indeterminate value.
Constructed(opt) ==
  /\ option = opt
  /\ IF opt.object THEN threads \in ThreadCounts(opt.threads)
     ELSE threads \in IndeterminateInts
  /\ pcap = IF opt.object THEN "stopped" ELSE "null"
  /\ streamDispatcher = opt.object
  /\ dtor = "alive"
  /\ crashed = (opt.object /\ ~Creatable(threads))
  /\ faults = 0
  /\ closeMark = None
  /\ queue = <<>>
  /\ closed = FALSE
  /\ store = <<>>
  /\ storeLock = 0
  /\ seqOf = <<>>
  /\ dpc = [w \in Created(opt) |-> "pop"]
  /\ dpkt = [w \in Created(opt) |-> None]
  /\ dseq = [w \in Created(opt) |-> 0]
  /\ dispChunks = <<>>
  /\ dispSeq = 0
  /\ streamQ = [w \in Created(opt) |-> <<>>]
  /\ spc = [w \in Created(opt) |-> "wait"]
  /\ sout = [w \in Created(opt) |-> [chunks |-> <<>>, layers |-> 0]]
  /\ delivered = [k \in StreamKeys |-> <<>>]
  /\ emitted = [k \in StreamKeys |-> {}]
  /\ analyzed = 0
  /\ vpLayers = 0
  /\ heldBack = {}
  /\ statusPending = 0
  /\ statusRaises = 0
  /\ windowRaises = 0
  /\ filterThreads = <<>>
  /\ orphans = {}
  /\ filterGen = 0
  /\ lastExpr = [n \in FilterNames |-> "none"]
  /\ capturing = FALSE
  /\ hpc = "idle"
  /\ hsnap = None
  /\ statusLog = <<>>
  /\ statusCalls = 0
  /\ drainRaises = 0
  /\ recentLogs = <<>>
  /\ logPending = 0
  /\ logCb = FALSE
  /\ logBatch = {}
  /\ logCalls = 0
  /\ logRuns = 0
  /\ logCount = 0
  /\ lpc = [t \in Created(opt) |-> "idle"]
  /\ logSinceRun = <<>>
  /\ logSinceSwap = <<>>

\* session.cpp:43: statusCb is empty until the host sets it.
InitWith(opt) ==
  /\ Constructed(opt)
  /\ statusCb = FALSE
  /\ hostCalls = <<>>

\* session.cpp:262-264: a session with one worker of each kind whose host has
\* called setStatusCallback(cb) and nothing else.
InitWatched ==
  /\ Constructed(OptionObject(0))
  /\ statusCb = TRUE
  /\ hostCalls = <<"setStatusCallback">>

\* A session constructed with an option object.
Init == \E c \in ConfiguredThreads : InitWith(OptionObject(c))

\* ---------------------------------------------------------------- actions

\* session.cpp:221-227: Session::analyze wraps the payload in the raw layer of
\* the session namespace and pushes the packet.
Analyze(shape) ==
  /\ analyzed < MaxPackets
  /\ LET pkt == [id |-> <<"raw", analyzed + 1>>, root |-> "Raw Layer", shape |-> shape]
     IN /\ queue' = QueuePush(queue, closed, pkt)
        /\ seqOf' = (pkt.id :> 0) @@ seqOf
  /\ analyzed' = analyzed + 1
  /\ UNCHANGED <<envVars, heldBack, threads, closed, store, storeLock, dpc, dpkt, dseq, dispChunks,
                 dispSeq, streamQ, spc, sout, delivered, emitted, vpLayers,
                 sendVars,
                 filterVars, hostVars, logVars>>

\* A dissector worker is at the given step of its callbacks, a stream worker
\* at the given step of its output.
InCallback(w, step) == dpc[w] = step
InStream(sw, step) == spc[sw] = step

\* DissectorThread: the worker takes one packet and runs the dissector chain.
CanPop(w) == dpc[w] = "pop" /\ queue # <<>>
Pop(w) ==
  /\ CanPop(w)
  /\ dpkt' = [dpkt EXCEPT ![w] = Head(queue)]
  /\ queue' = Tail(queue)
  /\ dpc' = [dpc EXCEPT ![w] = "dissected"]
  /\ UNCHANGED <<envVars, heldBack, threads, closed, store, storeLock, seqOf, dseq, dispChunks,
                 dispSeq, streamQ, spc, sout, delivered, emitted, analyzed,
                 vpLayers, sendVars,
                 filterVars, hostVars, logVars>>

\* session.cpp:181-183: packetCb enters store.insert: it takes the store's
\* mutex and reads the next sequence.
CanEnter(w) == dpc[w] = "dissected" /\ StoreMutexFree
PacketCbEnter(w) ==
  /\ CanEnter(w)
  /\ storeLock' = w
  /\ dseq' = [dseq EXCEPT ![w] = MaxSeq + 1]
  /\ dpc' = [dpc EXCEPT ![w] = "insert"]
  /\ UNCHANGED <<envVars, heldBack, threads, queue, closed, store, seqOf, dpkt, dispChunks, dispSeq,
                 streamQ, spc, sout, delivered, emitted, analyzed, vpLayers,
                 sendVars,
                 filterVars, hostVars, logVars>>

\* store.insert stamps the packet, stores it and releases the mutex.
PacketCbCommit(w) ==
  /\ InCallback(w, "insert")
  /\ store' = StoreWrite(store, dseq[w], dpkt[w])
  /\ seqOf' = [seqOf EXCEPT ![dpkt[w].id] = dseq[w]]
  /\ storeLock' = 0
  /\ dpc' = [dpc EXCEPT ![w] = "notify"]
  /\ UNCHANGED <<envVars, heldBack, threads, queue, closed, dpkt, dseq, dispChunks, dispSeq, streamQ,
                 spc, sout, delivered, emitted, analyzed, vpLayers, sendVars,
                 filterVars, hostVars, logVars>>

\* session.cpp:121-122: store.insert calls the change handlers outside the
\* lock; storeCb sends statusCbAsync.
PacketCbNotify(w) ==
  /\ InCallback(w, "notify")
  /\ Raise
  /\ dpc' = [dpc EXCEPT ![w] = "streams"]
  /\ UNCHANGED <<envVars, heldBack, threads, queue, closed, store, storeLock, seqOf, dpkt, dseq,
                 dispChunks, dispSeq, streamQ, spc, sout, delivered, emitted,
                 analyzed, vpLayers,
                 filterVars, hostVars, logVars>>

\* session.cpp:184-187: the worker calls streamsCb(seq, chunks).
StreamsCb(w) ==
  /\ InCallback(w, "streams")
  /\ streamDispatcher
  /\ LET chunks == ChunksOf(dpkt[w], dseq[w])
         d == dissStreamsCb(Dispatcher, dseq[w], chunks)
     IN /\ dispChunks' = d.chunks
        /\ dispSeq' = d.seq
        /\ streamQ' = d.q
        /\ emitted' = Emit(emitted, chunks)
        /\ heldBack' = IF dseq[w] \in DOMAIN d.chunks
                       THEN heldBack \cup {dseq[w]} ELSE heldBack
  /\ dpc' = [dpc EXCEPT ![w] = "pop"]
  /\ dpkt' = [dpkt EXCEPT ![w] = None]
  /\ UNCHANGED <<envVars, threads, queue, closed, store, storeLock, seqOf, dseq, spc, sout,
                 delivered, analyzed, vpLayers, sendVars,
                 filterVars, hostVars, logVars>>

\* Stream worker: the stream dissector reads the next chunk of its queue and
\* produces chunks for the upper stream and virtual layers; with no output the
\* worker waits for the next chunk.
CanRead(sw) == spc[sw] = "wait" /\ streamQ[sw] # <<>>
StreamRead(sw) ==
  /\ CanRead(sw)
  /\ LET c == Head(streamQ[sw])
         n == Min(c.vps, MaxVirtual - (vpLayers + SumLayers(Workers)))
     IN /\ delivered' = [delivered EXCEPT ![c.key] = Append(@, c)]
        /\ sout' = [sout EXCEPT ![sw] =
                      [chunks |-> IF c.re THEN <<UpperChunk(c)>> ELSE <<>>,
                       layers |-> n]]
        /\ spc' = [spc EXCEPT ![sw] = IF c.re \/ n > 0 THEN "emit" ELSE "wait"]
  /\ streamQ' = [streamQ EXCEPT ![sw] = Tail(@)]
  /\ UNCHANGED <<envVars, heldBack, threads, queue, closed, store, storeLock, seqOf, dpc, dpkt, dseq,
                 dispChunks, dispSeq, emitted, analyzed, vpLayers, sendVars,
                 filterVars, hostVars, logVars>>

\* session.cpp:200-203: the stream worker hands the re-injected chunks to
\* streamsCb, then calls vpLayersCb with the virtual layers.
CanEmit(sw) == InStream(sw, "emit") /\ (streamDispatcher \/ sout[sw].chunks = <<>>)
StreamsCbUp(sw) ==
  /\ CanEmit(sw)
  /\ LET d == streamStreamsCb(Dispatcher, sout[sw].chunks)
     IN /\ dispChunks' = d.chunks
        /\ dispSeq' = d.seq
        /\ streamQ' = d.q
  /\ emitted' = Emit(emitted, sout[sw].chunks)
  /\ sout' = [sout EXCEPT ![sw].chunks = <<>>]
  /\ vpLayers' = vpLayers + sout[sw].layers
  /\ spc' = [spc EXCEPT ![sw] = IF sout[sw].layers > 0 THEN "vp" ELSE "wait"]
  /\ UNCHANGED <<envVars, heldBack, threads, queue, closed, store, storeLock, seqOf, dpc, dpkt, dseq,
                 delivered, analyzed, sendVars,
                 filterVars, hostVars, logVars>>

\* session.cpp:204-208: vpLayersCb, one turn of its loop: a packet is made of
\* the layer and pushed; after the last layer the worker waits again.
VpPush_OnlyFirst(sw) ==
  /\ InStream(sw, "vp")
  /\ LET pkt == [id |-> <<"vp", VpMade + 1>>, root |-> "virtual", shape |-> <<>>]
     IN /\ queue' = QueuePush(queue, closed, pkt)
        /\ seqOf' = (pkt.id :> 0) @@ seqOf
  /\ sout' = [sout EXCEPT ![sw].layers = 0]
  /\ spc' = [spc EXCEPT ![sw] = "wait"]
  /\ UNCHANGED <<envVars, heldBack, threads, closed, store, storeLock, dpc, dpkt, dseq, dispChunks,
                 dispSeq, streamQ, delivered, emitted, analyzed, vpLayers,
                 sendVars,
                 filterVars, hostVars, logVars>>
VpPush(sw) ==
  /\ InStream(sw, "vp")
  /\ LET pkt == [id |-> <<"vp", VpMade + 1>>, root |-> "virtual", shape |-> <<>>]
     IN /\ queue' = QueuePush(queue, closed, pkt)
        /\ seqOf' = (pkt.id :> 0) @@ seqOf
  /\ sout' = [sout EXCEPT ![sw].layers = @ - 1]
  /\ spc' = [spc EXCEPT ![sw] = IF sout[sw].layers > 1 THEN "vp" ELSE "wait"]
  /\ UNCHANGED <<envVars, heldBack, threads, closed, store, storeLock, dpc, dpkt, dseq, dispChunks,
                 dispSeq, streamQ, delivered, emitted, analyzed, vpLayers,
                 sendVars,
                 filterVars, hostVars, logVars>>

PipeNext ==
  \/ \E shape \in PacketShapes : Analyze(shape)
  \/ \E w \in Workers : Pop(w)
  \/ \E w \in Workers : PacketCbEnter(w)
  \/ \E w \in Workers : PacketCbCommit(w)
  \/ \E w \in Workers : PacketCbNotify(w)
  \/ \E w \in Workers : StreamsCb(w)
  \/ \E sw \in Workers : StreamRead(sw)
  \/ \E sw \in Workers : StreamsCbUp(sw)
  \/ \E sw \in Workers : VpPush(sw)

SpecPipe == Init /\ [][PipeNext]_vars

\* session.cpp:152-154: a session configured with two threads has one worker
\* of each kind.
InitSingle == Init /\ threads = 1

\* The dissector and stream workers' steps: everything but the frame source.
PipeWork ==
  \/ \E w \in Workers : Pop(w)
  \/ \E w \in Workers : PacketCbEnter(w)
  \/ \E w \in Workers : PacketCbCommit(w)
  \/ \E w \in Workers : PacketCbNotify(w)
  \/ \E w \in Workers : StreamsCb(w)
  \/ \E sw \in Workers : StreamRead(sw)
  \/ \E sw \in Workers : StreamsCbUp(sw)
  \/ \E sw \in Workers : VpPush(sw)

\* A step of PipeWork can be taken: the guard of one of its actions holds (the
\* rest of every action only assigns).
CanWork ==
  \E w \in Workers :
    \/ CanPop(w) \/ CanEnter(w)
    \/ InCallback(w, "insert") \/ InCallback(w, "notify")
    \/ (InCallback(w, "streams") /\ streamDispatcher)
    \/ CanRead(w) \/ CanEmit(w) \/ InStream(w, "vp")

\* ---------------------------------------------------------- filter groups

\* The compiled filter applied to the packet stored under seq.
Accepts(expr, pkt, seq) ==
  CASE expr = "true" -> TRUE
    [] expr = "even" -> seq % 2 = 0
    [] OTHER -> FALSE

\* The sequences of a SequenceSet; each entry remembers the context whose
\* worker inserted it.
SeqsOf(packets) == { e.seq : e \in packets }

\* An ordered list of the numbers of a set.
RECURSIVE SortedSeq(_)
SortedSeq(S) ==
  IF S = {} THEN <<>>
  ELSE LET m == CHOOSE x \in S : \A y \in S : x <= y
       IN <<m>> \o SortedSeq(S \ {m})

\* session.cpp:234-244: a new FilterContext with d->threads workers, scanning
\* from sequence 1 into an empty result set.
NewContext_OtherFilter(gen, expr) ==
  [gen |-> gen, filter |-> "true", next |-> 1, packets |-> {},
   scanned |-> {}, twice |-> FALSE,
   w |-> [i \in Workers |-> [pc |-> "claim", cur |-> 0, hi |-> 0, gen |-> gen]]]
NewContext(gen, expr) ==
  [gen |-> gen, filter |-> expr, next |-> 1, packets |-> {},
   scanned |-> {}, twice |-> FALSE,
   w |-> [i \in Workers |-> [pc |-> "claim", cur |-> 0, hi |-> 0, gen |-> gen]]]

\* The workers of a context that are evaluating a packet when it is erased:
\* they hold the context and may still finish that packet.
InFlight(ctx) ==
  { [gen |-> ctx.gen, w |-> i, seq |-> ctx.w[i].cur, filter |-> ctx.filter,
     pc |-> ctx.w[i].pc] :
      i \in { j \in DOMAIN ctx.w : ctx.w[j].pc \in {"eval", "notify"} } }

\* session.cpp:230: d->filterThreads.erase(name)
EraseGroup(ft, name) == [n \in (DOMAIN ft) \ {name} |-> ft[n]]

\* session.cpp:233-244: d->filterThreads[name] gets a new context and workers.
InstallGroup(ft, name, gen, expr) ==
  [n \in (DOMAIN ft) \cup {name} |->
     IF n = name THEN NewContext(gen, expr) ELSE ft[n]]

\* session.cpp:230-245: the map of groups after filter(name, expr): the group
\* of that name is erased, and a new one installed when expr is not empty.
FilterGroups_NoErase(ft, name, gen, expr) ==
  IF expr # "" THEN InstallGroup(ft, name, gen, expr) ELSE ft
FilterGroups_Reused(ft, name, gen, expr) ==
  IF expr = "" THEN EraseGroup(ft, name)
  ELSE IF name \in DOMAIN ft
       THEN [ft EXCEPT ![name] = [@ EXCEPT !.gen = gen, !.filter = expr]]
       ELSE InstallGroup(ft, name, gen, expr)
FilterGroups(ft, name, gen, expr) ==
  LET erased == EraseGroup(ft, name)
  IN IF expr # "" THEN InstallGroup(erased, name, gen, expr) ELSE erased

\* The host thread is not inside a handler of the loop, and may make a call.
HostFree == hpc = "idle" /\ Len(hostCalls) < MaxHostCalls

FilterCalls == Cardinality({ i \in DOMAIN hostCalls : hostCalls[i] = "filter" })

\* session.cpp:229-248: Session::filter(name, filter)
Filter(name, expr) ==
  /\ HostFree
  /\ FilterCalls < MaxFilterCalls
  /\ LET groups == FilterGroups(filterThreads, name, filterGen + 1, expr)
         discarded == /\ name \in DOMAIN filterThreads
                      /\ (name \in DOMAIN groups =>
                            groups[name].w # filterThreads[name].w)
     IN /\ filterThreads' = groups
        /\ orphans' = IF discarded THEN orphans \cup InFlight(filterThreads[name])
                      ELSE orphans
  /\ filterGen' = IF expr # "" THEN filterGen + 1 ELSE filterGen
  /\ lastExpr' = [lastExpr EXCEPT ![name] = expr]
  /\ Raise
  /\ hostCalls' = Append(hostCalls, "filter")
  /\ UNCHANGED <<envVars, pipeVars, capturing, statusCb, hpc, hsnap, statusLog,
                 statusCalls, drainRaises, logVars>>

\* Worker i of the group installed under the name is at the given step.
InFilter(name, i, step) ==
  /\ name \in DOMAIN filterThreads
  /\ i \in DOMAIN filterThreads[name].w
  /\ filterThreads[name].w[i].pc = step

\* FilterThread: a worker claims the next contiguous range of stored sequences
\* from the group's counter; with nothing left it stays parked.
CanClaim(name, i) ==
  /\ name \in DOMAIN filterThreads
  /\ i \in DOMAIN filterThreads[name].w
  /\ filterThreads[name].w[i].pc = "claim"
  /\ filterThreads[name].next <= MaxSeq
FilterClaim(name, i) ==
  /\ CanClaim(name, i)
  /\ LET ctx == filterThreads[name]
         hi == Min(ctx.next + FilterBatch - 1, MaxSeq)
     IN filterThreads' =
             [filterThreads EXCEPT ![name] =
                [ctx EXCEPT !.next = hi + 1,
                            !.w[i] = [@ EXCEPT !.pc = "eval", !.cur = ctx.next,
                                               !.hi = hi]]]
  /\ UNCHANGED <<envVars, pipeVars, sendVars, orphans, filterGen, lastExpr, hostVars, logVars>>

\* FilterThread: the worker evaluates the filter on the next packet of its
\* range and inserts the sequence into the result set when it matches.
FilterEval(name, i) ==
  /\ InFilter(name, i, "eval")
  /\ LET ctx == filterThreads[name]
     IN /\ LET seq == ctx.w[i].cur
               hit == Accepts(ctx.filter, store[seq], seq)
           IN filterThreads' =
                [filterThreads EXCEPT ![name] =
                   [ctx EXCEPT
                      !.packets = IF hit THEN @ \cup {[seq |-> seq, gen |-> ctx.w[i].gen]}
                                  ELSE @,
                      !.twice = @ \/ seq \in ctx.scanned,
                      !.scanned = @ \cup {seq},
                      !.w[i] = IF hit THEN [@ EXCEPT !.pc = "notify"]
                               ELSE IF seq < @.hi THEN [@ EXCEPT !.cur = seq + 1]
                               ELSE [@ EXCEPT !.pc = "claim"]]]
  /\ UNCHANGED <<envVars, pipeVars, sendVars, orphans, filterGen, lastExpr, hostVars, logVars>>

\* session.cpp:238-239: the result set calls its change handler, which sends
\* statusCbAsync; the worker goes on with its range.
FilterNotify(name, i) ==
  /\ InFilter(name, i, "notify")
  /\ LET ctx == filterThreads[name]
     IN /\ filterThreads' =
             [filterThreads EXCEPT ![name] =
                [ctx EXCEPT !.w[i] = IF @.cur < @.hi
                                     THEN [@ EXCEPT !.pc = "eval", !.cur = @ + 1]
                                     ELSE [@ EXCEPT !.pc = "claim"]]]
  /\ Raise
  /\ UNCHANGED <<envVars, pipeVars, orphans, filterGen, lastExpr, hostVars, logVars>>

\* A worker of an erased group finishes the packet it was evaluating: a match
\* goes into the erased group's own result set, whose handler (session.cpp:
\* 238-239) sends statusCbAsync; then the worker exits.
OrphanFinish(o) ==
  /\ o \in orphans
  /\ orphans' = orphans \ {o}
  /\ LET hit == o.pc = "notify" \/ Accepts(o.filter, store[o.seq], o.seq)
     IN IF hit THEN Raise ELSE UNCHANGED sendVars
  /\ UNCHANGED <<envVars, pipeVars, filterThreads, filterGen, lastExpr, hostVars, logVars>>

\* session.cpp:270-276: Session::getFiltered(name, start, end)
GetFiltered(name, start, end) ==
  IF name \notin DOMAIN filterThreads THEN <<>>
  ELSE SortedSeq({ q \in SeqsOf(filterThreads[name].packets) : start <= q /\ q < end })

\* ---------------------------------------------------- host: status channel

\* session.cpp:262-264: Session::setStatusCallback
SetStatusCallback(isSet) ==
  /\ HostFree
  /\ statusCb # isSet
  /\ statusCb' = isSet
  /\ hostCalls' = Append(hostCalls, "setStatusCallback")
  /\ UNCHANGED <<envVars, pipeVars, sendVars, filterVars, capturing, hpc, hsnap, statusLog,
                 statusCalls, drainRaises, logVars>>

\* session.cpp:313-317: Session::start
Start ==
  /\ HostFree
  /\ pcap # "null"
  /\ pcap' = "running"
  /\ capturing' = TRUE
  /\ Raise
  /\ hostCalls' = Append(hostCalls, "start")
  /\ UNCHANGED <<option, streamDispatcher, dtor, crashed, faults, closeMark,
                 pipeVars, filterVars, statusCb, hpc, hsnap, statusLog,
                 statusCalls, drainRaises, logVars>>

\* session.cpp:319-323: Session::stop
Stop_StillCapturing ==
  /\ HostFree
  /\ pcap # "null"
  /\ pcap' = "stopped"
  /\ capturing' = capturing
  /\ Raise
  /\ hostCalls' = Append(hostCalls, "stop")
  /\ UNCHANGED <<option, streamDispatcher, dtor, crashed, faults, closeMark,
                 pipeVars, filterVars, statusCb, hpc, hsnap, statusLog,
                 statusCalls, drainRaises, logVars>>
Stop_ClosesQueue ==
  /\ HostFree
  /\ pcap # "null"
  /\ pcap' = "stopped"
  /\ capturing' = FALSE
  /\ closed' = TRUE
  /\ Raise
  /\ hostCalls' = Append(hostCalls, "stop")
  /\ UNCHANGED <<option, streamDispatcher, dtor, crashed, faults, closeMark,
                 heldBack, threads, queue, store, storeLock, seqOf, dpc, dpkt,
                 dseq, dispChunks, dispSeq, streamQ, spc, sout, delivered,
                 emitted, analyzed, vpLayers, filterVars, statusCb, hpc, hsnap,
                 statusLog, statusCalls, drainRaises, logVars>>
Stop ==
  /\ HostFree
  /\ pcap # "null"
  /\ pcap' = "stopped"
  /\ capturing' = FALSE
  /\ Raise
  /\ hostCalls' = Append(hostCalls, "stop")
  /\ UNCHANGED <<option, streamDispatcher, dtor, crashed, faults, closeMark,
                 pipeVars, filterVars, statusCb, hpc, hsnap, statusLog,
                 statusCalls, drainRaises, logVars>>

\* session.cpp:108-112: the handler's loop over filterThreads: every group's
\* name with the size of its result set.
FilteredSizes ==
  [n \in DOMAIN filterThreads |-> Cardinality(SeqsOf(filterThreads[n].packets))]

\* The last two entries of a list with one more appended.
KeepTwo(log, x) == IF Len(log) < 2 THEN Append(log, x) ELSE <<log[2], x>>

\* session.cpp:99-105: the loop consumes the wakeup and runs the handler of
\* statusCbAsync: with a callback set it reads capturing and store.maxSeq().
StatusBegin ==
  /\ hpc = "idle"
  /\ statusPending > 0
  /\ statusPending' = statusPending - 1
  /\ drainRaises' = windowRaises
  /\ windowRaises' = 0
  /\ IF statusCb
     THEN /\ hsnap' = [capturing |-> capturing, packets |-> MaxSeq]
          /\ hpc' = "filtered"
     ELSE UNCHANGED <<hsnap, hpc>>
  /\ UNCHANGED <<envVars, pipeVars, statusRaises, filterVars, capturing, statusCb,
                 statusLog, statusCalls, hostCalls, logVars>>

\* session.cpp:106-117: the handler reads the size of every group's result set
\* and calls statusCb with the object.
StatusDeliver_ClearsPending ==
  /\ hpc = "filtered"
  /\ statusLog' = KeepTwo(statusLog,
                          [capturing |-> hsnap.capturing, packets |-> hsnap.packets,
                           filtered |-> FilteredSizes])
  /\ statusCalls' = statusCalls + 1
  /\ hsnap' = None
  /\ hpc' = "idle"
  /\ statusPending' = 0
  /\ UNCHANGED <<envVars, pipeVars, statusRaises, windowRaises, filterVars,
                 capturing, statusCb, drainRaises, hostCalls, logVars>>
StatusDeliver ==
  /\ hpc = "filtered"
  /\ statusLog' = KeepTwo(statusLog,
                          [capturing |-> hsnap.capturing, packets |-> hsnap.packets,
                           filtered |-> FilteredSizes])
  /\ statusCalls' = statusCalls + 1
  /\ hsnap' = None
  /\ hpc' = "idle"
  /\ UNCHANGED <<envVars, pipeVars, sendVars, filterVars, capturing, statusCb,
                 drainRaises, hostCalls, logVars>>

\* ------------------------------------------------------- host: log channel

\* session.cpp:254-256: Session::setLogCallback
SetLogCallback(isSet) ==
  /\ HostFree
  /\ logCb # isSet
  /\ logCb' = isSet
  /\ hostCalls' = Append(hostCalls, "setLogCallback")
  /\ UNCHANGED <<envVars, pipeVars, sendVars, filterVars, capturing, statusCb, hpc, hsnap,
                 statusLog, statusCalls, drainRaises, recentLogs, logPending,
                 logBatch, logCalls, logRuns, logCount, lpc, logSinceRun,
                 logSinceSwap>>

\* session.cpp:128: recentLogs[msg.key()] = msg
LogPut_KeepFirst(logs, msg) ==
  IF msg.key \in DOMAIN logs THEN logs
  ELSE [k \in (DOMAIN logs) \cup {msg.key} |-> IF k = msg.key THEN msg ELSE logs[k]]
LogPut(logs, msg) ==
  [k \in (DOMAIN logs) \cup {msg.key} |-> IF k = msg.key THEN msg ELSE logs[k]]

\* session.cpp:125-129: Private::log, called by a worker thread: under
\* errorMutex the message replaces the one recorded for its key.
Log(t, key) ==
  /\ logCount < MaxLogs
  /\ lpc[t] = "idle"
  /\ LET msg == [key |-> key, n |-> logCount + 1]
     IN /\ recentLogs' = LogPut(recentLogs, msg)
        /\ logSinceRun' = (key :> msg) @@ logSinceRun
        /\ logSinceSwap' = (key :> msg) @@ logSinceSwap
  /\ logCount' = logCount + 1
  /\ lpc' = [lpc EXCEPT ![t] = "send"]
  /\ UNCHANGED <<envVars, pipeVars, sendVars, filterVars, hostVars, logPending, logCb,
                 logBatch, logCalls, logRuns>>

\* session.cpp:130: uv_async_send(&logCbAsync)
LogSend(t) ==
  /\ lpc[t] = "send"
  /\ logPending' = 1
  /\ lpc' = [lpc EXCEPT ![t] = "idle"]
  /\ UNCHANGED <<envVars, pipeVars, sendVars, filterVars, hostVars, recentLogs, logCb,
                 logBatch, logCalls, logRuns, logCount, logSinceRun, logSinceSwap>>

\* The records of a map of logs.
Records(logs) == { logs[k] : k \in DOMAIN logs }

\* session.cpp:68-94: the handler's loop over the swapped map: the argument of
\* every logCb call it makes, one call for each record.
LogCbArgs_OneBatch(logs) == IF DOMAIN logs = {} THEN {} ELSE { Records(logs) }
LogCbArgs(logs) == { {logs[k]} : k \in DOMAIN logs }

\* session.cpp:60-96: the loop consumes the wakeup and runs the handler of
\* logCbAsync: with a callback set it swaps recentLogs for an empty map under
\* errorMutex and calls logCb once for every record of the swapped map.
LogDrain ==
  /\ hpc = "idle"
  /\ logPending > 0
  /\ logPending' = 0
  /\ logRuns' = logRuns + 1
  /\ logSinceRun' = <<>>
  /\ IF logCb
     THEN /\ recentLogs' = <<>>
          /\ logBatch' = UNION LogCbArgs(recentLogs)
          /\ logCalls' = Cardinality(LogCbArgs(recentLogs))
          /\ logSinceSwap' = <<>>
     ELSE /\ logBatch' = {}
          /\ logCalls' = 0
          /\ UNCHANGED <<recentLogs, logSinceSwap>>
  /\ UNCHANGED <<envVars, pipeVars, sendVars, filterVars, hostVars, logCb, logCount, lpc>>

\* ---------------------------------------------------------- specifications

\* A dissector worker storing packets that carry no stream chunks.  The filter
\* groups and the host see the dissector workers only through store.insert
\* and its change handler, so one worker taking the packets produces every
\* sequence of inserts and sends they can observe.
StoreWork ==
  \/ Pop(1)
  \/ PacketCbEnter(1)
  \/ PacketCbCommit(1)
  \/ PacketCbNotify(1)
  \/ StreamsCb(1)

\* The filter workers of the installed and of the erased groups.
FilterWork ==
  \/ \E n \in FilterNames, i \in Workers : FilterClaim(n, i)
  \/ \E n \in FilterNames, i \in Workers : FilterEval(n, i)
  \/ \E n \in FilterNames, i \in Workers : FilterNotify(n, i)
  \/ \E o \in orphans : OrphanFinish(o)

\* Filter groups installed, replaced and removed while packets are stored.
FilterNext ==
  \/ Analyze(<<>>)
  \/ StoreWork
  \/ \E n \in FilterNames, e \in FilterExprs : Filter(n, e)
  \/ FilterWork

SpecFilter == Init /\ [][FilterNext]_vars

\* Sessions constructed with any value of the "threads" option, storing
\* packets and installing filter groups.
InitThreads == \E c \in ThreadOptions : InitWith(OptionObject(c))

ThreadsNext ==
  \/ ~crashed /\ Analyze(<<>>)
  \/ ~crashed /\ StoreWork
  \/ ~crashed /\ \E n \in FilterNames, e \in {"", "true"} : Filter(n, e)
  \/ ~crashed /\ FilterWork

SpecThreads == InitThreads /\ [][ThreadsNext]_vars

\* The pipeline of a session with one worker of each kind while the host
\* starts and stops the capture.
StopNext ==
  \/ PipeNext
  \/ Start
  \/ Stop

SpecStop == InitSingle /\ [][StopNext]_vars

\* ------------------------------------------------------------- destruction

\* session.cpp:134: ~Private starts with queue.close().
Destroy_QueueOpen ==
  /\ dtor = "alive"
  /\ hpc = "idle"
  /\ closed' = closed
  /\ closeMark' = DOMAIN seqOf
  /\ dtor' = "dissectorThreads"
  /\ UNCHANGED <<option, pcap, streamDispatcher, crashed, faults, heldBack,
                 threads, queue, store, storeLock, seqOf, dpc, dpkt, dseq,
                 dispChunks, dispSeq, streamQ, spc, sout, delivered, emitted,
                 analyzed, vpLayers, sendVars, filterVars, hostVars, logVars>>
Destroy ==
  /\ dtor = "alive"
  /\ hpc = "idle"
  /\ closed' = TRUE
  /\ closeMark' = DOMAIN seqOf
  /\ dtor' = "dissectorThreads"
  /\ UNCHANGED <<option, pcap, streamDispatcher, crashed, faults, heldBack,
                 threads, queue, store, storeLock, seqOf, dpc, dpkt, dseq,
                 dispChunks, dispSeq, streamQ, spc, sout, delivered, emitted,
                 analyzed, vpLayers, sendVars, filterVars, hostVars, logVars>>

\* DissectorThread: pop() signals closed and the worker exits.  A worker in
\* the middle of a packet finishes it first.
DissectorExit(w) ==
  /\ InCallback(w, "pop")
  /\ closed
  /\ dpc' = [dpc EXCEPT ![w] = "exit"]
  /\ UNCHANGED <<envVars, heldBack, threads, queue, closed, store, storeLock,
                 seqOf, dpkt, dseq, dispChunks, dispSeq, streamQ, spc, sout,
                 delivered, emitted, analyzed, vpLayers, sendVars, filterVars,
                 hostVars, logVars>>

\* session.cpp:135-136: dissectorThreads.clear() returns when every dissector
\* worker is joined; filterThreads.clear() then erases every group.  The
\* workers of the erased groups finish the packet they are evaluating.
ClearFilterThreads ==
  /\ dtor = "dissectorThreads"
  /\ \A w \in DOMAIN dpc : dpc[w] = "exit"
  /\ filterThreads' = <<>>
  /\ orphans' = orphans \cup UNION { InFlight(filterThreads[n]) : n \in DOMAIN filterThreads }
  /\ dtor' = "filterThreads"
  /\ UNCHANGED <<option, pcap, streamDispatcher, crashed, faults, closeMark,
                 pipeVars, sendVars, filterGen, lastExpr, hostVars, logVars>>

\* session.cpp:137: filterThreads.clear() has returned, every filter worker is
\* joined; streamDispatcher.reset() stores null in the pointer and then
\* destroys the dispatcher, which waits for its workers.
ResetStreamDispatcher ==
  /\ dtor = "filterThreads"
  /\ orphans = {}
  /\ streamDispatcher' = FALSE
  /\ dtor' = "streamDispatcher"
  /\ UNCHANGED <<option, pcap, crashed, faults, closeMark, pipeVars, sendVars,
                 filterVars, hostVars, logVars>>

\* StreamDispatcher: a stream worker that is between items sees that the
\* dispatcher is being destroyed and exits.
StreamExit(sw) ==
  /\ dtor = "streamDispatcher"
  /\ InStream(sw, "wait")
  /\ spc' = [spc EXCEPT ![sw] = "exit"]
  /\ UNCHANGED <<envVars, heldBack, threads, queue, closed, store, storeLock,
                 seqOf, dpc, dpkt, dseq, dispChunks, dispSeq, streamQ, sout,
                 delivered, emitted, analyzed, vpLayers, sendVars, filterVars,
                 hostVars, logVars>>

\* session.cpp:200-203: a stream worker finishing its item hands the chunks
\* to streamsCb, which calls d->streamDispatcher->insert: with the pointer
\* already null the call dereferences null and the process fails.
StreamsCbNull(sw) ==
  /\ InStream(sw, "emit")
  /\ ~streamDispatcher
  /\ sout[sw].chunks # <<>>
  /\ crashed' = TRUE
  /\ UNCHANGED <<option, pcap, streamDispatcher, dtor, faults, closeMark,
                 pipeVars, sendVars, filterVars, hostVars, logVars>>

\* session.cpp:137-140: the dispatcher's destructor returns when every stream
\* worker is joined; pcap.reset() and the two uv_close calls follow.
DestroyDone ==
  /\ dtor = "streamDispatcher"
  /\ \A sw \in DOMAIN spc : spc[sw] = "exit"
  /\ pcap' = "null"
  /\ dtor' = "done"
  /\ UNCHANGED <<option, streamDispatcher, crashed, faults, closeMark,
                 pipeVars, sendVars, filterVars, hostVars, logVars>>

\* A session with one worker of each kind, with packets in the pipeline and a
\* filter group, that is destroyed at any moment.  The frame source calls
\* analyze until it is destroyed; a failed process takes no step.
DestroyNext ==
  \/ ~crashed /\ dtor # "done" /\ \E shape \in PacketShapes : Analyze(shape)
  \/ ~crashed /\ PipeWork
  \/ ~crashed /\ dtor = "alive" /\ \E n \in FilterNames : Filter(n, "true")
  \/ ~crashed /\ FilterWork
  \/ ~crashed /\ Destroy
  \/ ~crashed /\ \E w \in Workers : DissectorExit(w)
  \/ ~crashed /\ ClearFilterThreads
  \/ ~crashed /\ ResetStreamDispatcher
  \/ ~crashed /\ \E sw \in Workers : StreamExit(sw)
  \/ ~crashed /\ \E sw \in Workers : StreamsCbNull(sw)
  \/ ~crashed /\ DestroyDone

SpecDestroy == InitSingle /\ [][DestroyNext]_vars

\* The dissector workers alone: packets are analyzed, stored and their chunks
\* handed to the dispatcher; the stream workers do not run.
DissectNext ==
  \/ \E shape \in PacketShapes : Analyze(shape)
  \/ \E w \in Workers : Pop(w)
  \/ \E w \in Workers : PacketCbEnter(w)
  \/ \E w \in Workers : PacketCbCommit(w)
  \/ \E w \in Workers : PacketCbNotify(w)
  \/ \E w \in Workers : StreamsCb(w)

SpecDissect == Init /\ [][DissectNext]_vars

\* The session as a host sees it that set its status callback first and keeps
\* it: control calls, packets, filter groups and the status channel.
ViewNext ==
  \/ Analyze(<<>>)
  \/ StoreWork
  \/ \E n \in FilterNames, e \in {"", "true"} : Filter(n, e)
  \/ FilterWork
  \/ Start
  \/ Stop
  \/ StatusBegin
  \/ StatusDeliver

SpecView == InitWatched /\ [][ViewNext]_vars

\* session.cpp:299-323: setInterface, setPromiscuous, setSnaplen, setBPF,
\* start and stop all begin with d->pcap->...: on a session without a frame
\* source the call dereferences null and the process fails.
PcapNull ==
  /\ HostFree
  /\ pcap = "null"
  /\ crashed' = TRUE
  /\ UNCHANGED <<option, pcap, streamDispatcher, dtor, faults, closeMark,
                 pipeVars, sendVars, filterVars, hostVars, logVars>>

\* Sessions constructed with any argument, with or without an option object.
InitAny ==
  \E opt \in {NoOption} \cup { OptionObject(c) : c \in ConfiguredThreads } : InitWith(opt)

\* The host's calls on such a session, and the workers it has.
OptionNext ==
  \/ ~crashed /\ Analyze(<<>>)
  \/ ~crashed /\ 1 \in DOMAIN dpc /\ StoreWork
  \/ ~crashed /\ \E n \in FilterNames, e \in {"", "true"} : Filter(n, e)
  \/ ~crashed /\ FilterWork
  \/ ~crashed /\ Start
  \/ ~crashed /\ Stop
  \/ ~crashed /\ PcapNull

SpecOption == InitAny /\ [][OptionNext]_vars

\* The whole session as the host sees it: control calls, packets, filter
\* groups and the status channel.
StatusNext ==
  \/ Analyze(<<>>)
  \/ StoreWork
  \/ \E n \in FilterNames, e \in {"", "true"} : Filter(n, e)
  \/ FilterWork
  \/ \E b \in BOOLEAN : SetStatusCallback(b)
  \/ Start
  \/ Stop
  \/ StatusBegin
  \/ StatusDeliver

SpecStatus == InitSingle /\ [][StatusNext]_vars

\* The host starting and stopping the capture of a session with no packets
\* and no filter groups.
StartStopNext ==
  \/ \E b \in BOOLEAN : SetStatusCallback(b)
  \/ Start
  \/ Stop
  \/ StatusBegin
  \/ StatusDeliver

SpecStartStop == Init /\ [][StartStopNext]_vars

\* session.cpp:211-216: the frame source fails while it is running (the
\* interface goes down, the permission is lost).  The only callbacks the
\* constructor gives it are logCb, bound to Private::log (125-131), and
\* packetCb: it records an error message and signals logCbAsync, and it stops
\* producing frames.  It has no access to capturing or to statusCbAsync.
PcapFail ==
  /\ pcap = "running"
  /\ pcap' = "stopped"
  /\ LET msg == [key |-> "pcap", n |-> logCount + 1]
     IN /\ recentLogs' = LogPut(recentLogs, msg)
        /\ logSinceRun' = ("pcap" :> msg) @@ logSinceRun
        /\ logSinceSwap' = ("pcap" :> msg) @@ logSinceSwap
  /\ logCount' = logCount + 1
  /\ logPending' = 1
  /\ UNCHANGED <<option, streamDispatcher, dtor, crashed, faults, closeMark,
                 pipeVars, sendVars, filterVars, hostVars, logCb, logBatch,
                 logCalls, logRuns, lpc>>

\* DissectorThread with session.cpp:188: a dissector raises a runtime error on
\* a layer of the packet the worker holds.  The worker reports it through
\* logCb, which is bound to Private::log (125-131): the message is recorded
\* under the dissector's resource name and logCbAsync is signalled.  The
\* dissector is skipped for that layer, so the chunks it would have produced
\* may be missing; the worker goes on with the packet.
DissectorRaise_Drops(w) ==
  /\ InCallback(w, "dissected")
  /\ faults < MaxFaults
  /\ faults' = faults + 1
  /\ LET msg == [key |-> "D1", n |-> logCount + 1]
     IN /\ recentLogs' = LogPut(recentLogs, msg)
        /\ logSinceRun' = ("D1" :> msg) @@ logSinceRun
        /\ logSinceSwap' = ("D1" :> msg) @@ logSinceSwap
  /\ logCount' = logCount + 1
  /\ logPending' = 1
  /\ dpkt' = [dpkt EXCEPT ![w] = None]
  /\ dpc' = [dpc EXCEPT ![w] = "pop"]
  /\ UNCHANGED <<option, pcap, streamDispatcher, dtor, crashed, closeMark,
                 heldBack, threads, queue, closed, store, storeLock, seqOf,
                 dseq, dispChunks, dispSeq, streamQ, spc, sout, delivered,
                 emitted, analyzed, vpLayers, sendVars, filterVars, hostVars,
                 logCb, logBatch, logCalls, logRuns, lpc>>
DissectorRaise(w) ==
  /\ InCallback(w, "dissected")
  /\ faults < MaxFaults
  /\ faults' = faults + 1
  /\ LET msg == [key |-> "D1", n |-> logCount + 1]
     IN /\ recentLogs' = LogPut(recentLogs, msg)
        /\ logSinceRun' = ("D1" :> msg) @@ logSinceRun
        /\ logSinceSwap' = ("D1" :> msg) @@ logSinceSwap
  /\ logCount' = logCount + 1
  /\ logPending' = 1
  /\ \E keeps \in BOOLEAN :
       dpkt' = [dpkt EXCEPT ![w].shape = IF keeps THEN @ ELSE <<>>]
  /\ UNCHANGED <<option, pcap, streamDispatcher, dtor, crashed, closeMark,
                 heldBack, threads, queue, closed, store, storeLock, seqOf,
                 dpc, dseq, dispChunks, dispSeq, streamQ, spc, sout, delivered,
                 emitted, analyzed, vpLayers, sendVars, filterVars, hostVars,
                 logCb, logBatch, logCalls, logRuns, lpc>>

\* The pipeline with dissectors that raise, and the loop draining the log
\* channel, in a session with one worker of each kind.
FaultNext ==
  \/ PipeNext
  \/ \E w \in Workers : DissectorRaise(w)
  \/ LogDrain

SpecFault == InitSingle /\ [][FaultNext]_vars

\* The host starting and stopping a capture whose frame source may fail.
CaptureNext ==
  \/ \E b \in BOOLEAN : SetStatusCallback(b)
  \/ \E b \in BOOLEAN : SetLogCallback(b)
  \/ Start
  \/ Stop
  \/ PcapFail
  \/ StatusBegin
  \/ StatusDeliver
  \/ LogDrain

SpecCapture == Init /\ [][CaptureNext]_vars

\* Worker threads logging while the host sets and clears the log callback.
LogNext ==
  \/ \E b \in BOOLEAN : SetLogCallback(b)
  \/ \E t \in Workers, k \in LogKeys : Log(t, k)
  \/ \E t \in Workers : LogSend(t)
  \/ LogDrain

SpecLog == Init /\ [][LogNext]_vars

\* ------------------------------------------------------- pipeline claims

\* Nothing is queued, held by a worker or waiting in the dispatcher.
Quiescent ==
  /\ queue = <<>>
  /\ \A w \in Workers : dpc[w] = "pop" /\ spc[w] = "wait" /\ streamQ[w] = <<>>

Assigned == { id \in DOMAIN seqOf : seqOf[id] # 0 }

\* C1: under any interleaving of the workers' packetCb calls the sequence
\* numbers assigned so far are exactly 1..maxSeq, no number is given to two
\* packets, and the store holds each packet under its number.
C1_DenseSequences ==
  /\ { seqOf[id] : id \in Assigned } = 1 .. MaxSeq
  /\ \A a, b \in Assigned : seqOf[a] = seqOf[b] => a = b
  /\ \A id \in Assigned : store[seqOf[id]].id = id

\* Two packets are stored, one worker is inside insert and another waits for it.
C1_Witness ==
  /\ MaxSeq >= 2
  /\ \E w1, w2 \in Workers :
       w1 # w2 /\ dpc[w1] = "insert" /\ dpc[w2] = "dissected"

\* C2: the store never holds more than the analyzed packets plus the virtual
\* layers passed to vpLayersCb; while the queue is open the workers never stall
\* with work left, and when they come to rest the store holds exactly that
\* many packets, each analyzed and each virtual packet once.
C2_AllStored ==
  /\ MaxSeq <= analyzed + vpLayers
  /\ (~closed /\ ~Quiescent) => CanWork
  /\ (~closed /\ Quiescent) =>
       /\ MaxSeq = analyzed + vpLayers
       /\ Assigned = DOMAIN seqOf
       /\ Cardinality(DOMAIN seqOf) = MaxSeq

\* All packets were analyzed, both virtual layers came back and are stored.
C2_Witness ==
  /\ Quiescent
  /\ analyzed = MaxPackets
  /\ vpLayers >= 2
  /\ MaxSeq = analyzed + vpLayers

\* The chunks of a list are in strictly increasing order-key order.
StrictlyOrdered(cs) ==
  \A i, j \in 1 .. Len(cs) : i < j => OrdLess(cs[i], cs[j])

\* C3: for every stream key the stream dissector reads the chunks in strictly
\* increasing order key, whichever worker calls streamsCb first.
C3_StreamOrder == \A k \in StreamKeys : StrictlyOrdered(delivered[k])

\* The packet with sequence 2 reached the dispatcher before the one with
\* sequence 1 and was held back; the chunks of both have been read.
C3_Witness ==
  /\ 2 \in heldBack
  /\ Len(delivered["tcp1"]) = 4
  /\ delivered["tcp1"][2].seq = 1
  /\ delivered["tcp1"][3].seq = 2

\* C4: a stream dissector reads only emitted chunks and none twice; when the
\* pipeline is at rest it has read, for every key, exactly the emitted chunks
\* in order-key order, those of the re-injection path included.
C4_ExactlyOnce ==
  \A k \in StreamKeys :
    /\ \A i \in 1 .. Len(delivered[k]) : delivered[k][i] \in emitted[k]
    /\ \A i, j \in 1 .. Len(delivered[k]) :
         delivered[k][i] = delivered[k][j] => i = j
    /\ (~closed /\ Quiescent) =>
         /\ { delivered[k][i] : i \in 1 .. Len(delivered[k]) } = emitted[k]
         /\ Len(delivered[k]) = Cardinality(emitted[k])
         /\ StrictlyOrdered(delivered[k])

\* At rest, with chunks of two packets read on one key and re-injected chunks
\* read on the upper stream.
C4_Witness ==
  /\ Quiescent
  /\ Len(delivered["tcp1"]) = 4
  /\ Len(delivered["app1"]) = 2
  /\ Len(delivered["tcp2"]) = 0

\* --------------------------------------------------------- filter claims

\* The sequences stored so far whose packet the expression accepts.
Accepted(expr) == { q \in 1 .. MaxSeq : Accepts(expr, store[q], q) }

\* Every worker of the group is parked and the group's counter is past the
\* last stored sequence.
GroupQuiet(n) ==
  /\ \A i \in DOMAIN filterThreads[n].w : filterThreads[n].w[i].pc = "claim"
  /\ filterThreads[n].next > MaxSeq

GroupWork(n) ==
  \E i \in Workers : FilterClaim(n, i) \/ FilterEval(n, i) \/ FilterNotify(n, i)

\* A step of GroupWork can be taken: the guard of one of its actions holds.
GroupCanWork(n) ==
  \E i \in Workers :
    CanClaim(n, i) \/ InFilter(n, i, "eval") \/ InFilter(n, i, "notify")

\* The guards are the enabling conditions of the workers' steps.
GuardsAreEnabling ==
  /\ CanWork <=> ENABLED PipeWork
  /\ \A n \in DOMAIN filterThreads : GroupCanWork(n) <=> ENABLED GroupWork(n)

\* C5: the result set of an installed group only ever holds sequences the
\* expression passed to filter() accepts, no sequence is evaluated twice, the
\* group's workers are never stalled with stored packets left to scan, and
\* once they are parked the set is exactly the accepted sequences of
\* 1..maxSeq: all of them for "true", none for "false".
C5_FilterResult ==
  \A n \in DOMAIN filterThreads :
    LET ctx == filterThreads[n]
        got == SeqsOf(ctx.packets)
    IN /\ got \subseteq Accepted(lastExpr[n])
       /\ ~ctx.twice
       /\ ~GroupQuiet(n) => GroupCanWork(n)
       /\ GroupQuiet(n) =>
            /\ got = Accepted(lastExpr[n])
            /\ ctx.scanned = 1 .. MaxSeq
            /\ lastExpr[n] = "true" => Cardinality(got) = MaxSeq
            /\ lastExpr[n] = "false" => Cardinality(got) = 0

\* A group with two workers came to rest with the even sequences of all the
\* stored packets.
C5_Witness ==
  /\ MaxSeq = MaxPackets
  /\ "a" \in DOMAIN filterThreads
  /\ GroupQuiet("a")
  /\ lastExpr["a"] = "even"
  /\ SeqsOf(filterThreads["a"].packets) = {2}
  /\ threads > 1

\* C6: whatever getFiltered and the status handler read of a group was put
\* there by the workers of the group now installed under that name: after a
\* replacement nothing the replaced group's workers produced is in the set or
\* in its size, also not what they finish after filter() returned.
C6_AtomicReplace ==
  \A n \in DOMAIN filterThreads :
    LET ctx == filterThreads[n]
        own == { e.seq : e \in { x \in ctx.packets : x.gen = ctx.gen } }
    IN /\ \A e \in ctx.packets : e.gen = ctx.gen
       /\ \A i \in DOMAIN ctx.w : ctx.w[i].gen = ctx.gen
       /\ SeqsOf(ctx.packets) \subseteq ctx.scanned
       /\ GetFiltered(n, 1, MaxSeq + 1) = SortedSeq(own)
       /\ FilteredSizes[n] = Cardinality(own)
       /\ \A o \in orphans : o.gen < ctx.gen

\* A group was replaced while one of its workers was evaluating a packet; the
\* worker has not finished, and the new group already has a result.
C6_Witness ==
  /\ orphans # {}
  /\ "a" \in DOMAIN filterThreads
  /\ filterThreads["a"].gen = 2
  /\ filterThreads["a"].packets # {}

\* C7: while the last filter() call for a name had the empty expression, and
\* while none was made, the name has no group: getFiltered gives the empty
\* list for every start and end and the status handler's filtered map has no
\* entry for it; after a call with an expression the group exists.
C7_Removed ==
  \A n \in FilterNames :
    IF lastExpr[n] \in {"", "none"}
    THEN /\ n \notin DOMAIN filterThreads
         /\ n \notin DOMAIN FilteredSizes
         /\ \A a, b \in 0 .. MaxSeq + 1 : GetFiltered(n, a, b) = <<>>
    ELSE n \in DOMAIN filterThreads

\* A group that had scanned a packet was removed while a worker was
\* evaluating another.
C7_Witness ==
  /\ lastExpr["a"] = ""
  /\ filterGen >= 1
  /\ orphans # {}
  /\ MaxSeq >= 2

\* ------------------------------------------------------- channel claims

\* C8: statusCb is never called more often than statusCbAsync was sent; at
\* most one wakeup is pending however many sends were made since the handler
\* last ran, a wakeup is pending exactly when there was such a send, so every
\* run of the handler stands for all the sends before it; and the payload is
\* read when the handler runs: it carries the capturing flag of that moment
\* and a packet count the store has reached.
C8_Coalescing ==
  /\ statusCalls <= statusRaises
  /\ statusPending <= 1
  /\ (statusPending = 1) = (windowRaises >= 1)
  /\ hpc = "filtered" =>
       /\ drainRaises >= 1
       /\ hsnap.capturing = capturing
       /\ hsnap.packets <= MaxSeq
  /\ statusCalls > 0 =>
       /\ statusLog[Len(statusLog)].packets <= MaxSeq
       /\ drainRaises >= 1

\* Three sends (filter(), a store insert, a result-set insert) were made
\* before the loop ran the handler, and the host got one call for them, with
\* the counts of the moment of the call.
C8_Witness ==
  /\ hpc = "idle"
  /\ statusCalls = 1
  /\ statusRaises >= 3
  /\ drainRaises = statusRaises
  /\ statusPending = 0
  /\ statusLog[1].packets = 1
  /\ "a" \in DOMAIN statusLog[1].filtered
  /\ statusLog[1].filtered["a"] = 1

\* The host has set a status callback, called start() and then stop(), and
\* the loop has run every handler it had to run.
StartStopDone ==
  /\ hostCalls = <<"setStatusCallback", "start", "stop">>
  /\ hpc = "idle"
  /\ statusPending = 0

IdlePayload(c) == [capturing |-> c, packets |-> 0, filtered |-> <<>>]

\* C9 as stated: start() then stop() yields exactly two deliveries, the
\* first with capturing=true and the second with capturing=false, both with
\* packets=0 and an empty filtered map.
C9_ExactlyTwo ==
  StartStopDone => /\ statusCalls = 2
                   /\ statusLog = <<IdlePayload(TRUE), IdlePayload(FALSE)>>

\* C9 amended: start() then stop() yields one or two deliveries, all with
\* packets=0 and an empty filtered map.  The last one carries capturing=false.
\* A delivery made before stop() is called carries capturing=true, and there
\* are two deliveries only in that case; when stop() is called before the
\* loop ran the handler, both sends are delivered as one call.
C9_OneOrTwo ==
  hostCalls = <<"setStatusCallback", "start", "stop">> /\ hpc = "idle" =>
    /\ statusCalls + statusPending \in {1, 2}
    /\ \A i \in DOMAIN statusLog : statusLog[i] \in {IdlePayload(TRUE), IdlePayload(FALSE)}
    /\ statusPending = 1 => \A i \in DOMAIN statusLog : statusLog[i] = IdlePayload(TRUE)
    /\ statusPending = 0 =>
         /\ statusLog[Len(statusLog)] = IdlePayload(FALSE)
         /\ statusCalls = 2 => statusLog[1] = IdlePayload(TRUE)
         /\ statusCalls = Len(statusLog)

\* start() and stop() were called before the loop ran the handler: the host
\* got a single call.
C9_Witness ==
  /\ StartStopDone
  /\ statusCalls = 1
  /\ drainRaises = 2

\* The records handed to logCb are one per key.
OnePerKey(batch) == \A a, b \in batch : a.key = b.key => a = b

\* C10 as stated: at every run of the logCbAsync handler the records handed
\* to the host are at most one per key, each the last one logged with its key
\* since the handler ran before, and the run leaves recentLogs empty.
C10_EveryDrain ==
  [][logRuns' = logRuns + 1 =>
       /\ OnePerKey(logBatch')
       /\ \A r \in logBatch' : r.key \in DOMAIN logSinceRun /\ logSinceRun[r.key] = r
       /\ recentLogs' = <<>>]_vars

\* C10 amended: at every run of the logCbAsync handler with a log callback
\* set, the records handed to the host are one per key logged since the map
\* was last handed over, each the last one logged with its key since then,
\* and the run leaves recentLogs empty; a run with no callback set hands
\* nothing over and leaves recentLogs as it is.
C10_DrainWithCallback ==
  [][logRuns' = logRuns + 1 =>
       IF logCb
       THEN /\ OnePerKey(logBatch')
            /\ logBatch' = Records(logSinceSwap)
            /\ logCalls' = Cardinality(DOMAIN logSinceSwap)
            /\ recentLogs' = <<>>
       ELSE /\ logBatch' = {}
            /\ recentLogs' = recentLogs]_vars

\* Two threads logged three messages, two of them with one key, before the
\* handler ran with a callback set: the host got two records, the later of
\* the two and the other.
C10_Witness ==
  /\ logRuns = 1
  /\ logCount = 3
  /\ logCb
  /\ Cardinality(logBatch) = 2
  /\ recentLogs = <<>>
  /\ \E r \in logBatch : r.n = 3
  /\ \A t \in Workers : lpc[t] = "idle"

FailedAtRest ==
  /\ hostCalls = <<"setStatusCallback", "start">>
  /\ statusCb
  /\ pcap = "stopped"
  /\ hpc = "idle"
  /\ statusPending = 0
  /\ logPending = 0

\* C12: when the frame source fails while capturing, an error log is emitted
\* and a status delivery with capturing=false follows without the host
\* calling stop(): once the loop has run every pending handler, the error has
\* been recorded and the last status payload carries capturing=false.
C12_StatusFollowsFailure ==
  FailedAtRest =>
    /\ logCount >= 1
    /\ statusLog # <<>>
    /\ statusLog[Len(statusLog)].capturing = FALSE

\* C13: a dissector that raises never causes the packet to be dropped or the
\* worker to stall: the workers never stall with work left, at rest the store
\* holds every analyzed packet and every virtual packet exactly once (N
\* injected packets with no virtual ones give maxSeq = N), and every raise
\* leaves a message under the dissector's resource name in the log channel
\* with the channel signalled.
C13_FaultIsolation ==
  /\ [](/\ MaxSeq <= analyzed + vpLayers
        /\ ~Quiescent => CanWork
        /\ Quiescent => /\ MaxSeq = analyzed + vpLayers
                        /\ Assigned = DOMAIN seqOf
                        /\ Cardinality(DOMAIN seqOf) = MaxSeq
        /\ \A id \in Assigned : store[seqOf[id]].id = id)
  /\ [][faults' = faults + 1 =>
          /\ "D1" \in DOMAIN recentLogs'
          /\ recentLogs'["D1"].n = logCount'
          /\ logPending' = 1
          /\ queue' = queue /\ dpc' = dpc]_vars

\* Dissectors raised twice, every analyzed packet is stored and the workers
\* are at rest; the error message waits in the log channel.
C13_Witness ==
  /\ faults = MaxFaults
  /\ Quiescent
  /\ analyzed = MaxPackets
  /\ MaxSeq >= MaxPackets
  /\ "D1" \in DOMAIN recentLogs

\* max(1, c - 1) over the integers.
Expected(c) == IF c <= 2 THEN 1 ELSE c - 1

\* The session has n dissector workers, n stream workers and n workers in
\* every installed filter group.
UsesWorkers(n) ==
  /\ Cardinality(DOMAIN dpc) = n
  /\ Cardinality(DOMAIN spc) = n
  /\ \A name \in DOMAIN filterThreads : Cardinality(DOMAIN filterThreads[name].w) = n

\* C14: for every configured thread count c, including 0, 1 and negative
\* values, the session uses max(1, c - 1) workers of each kind: dissector
\* workers, stream workers and the workers of every filter group; the count
\* is never below 1.
C14_WorkerCount ==
  /\ Expected(option.threads) >= 1
  /\ UsesWorkers(Expected(option.threads))

\* The same for every configured count but the least int.
WorkerCountAboveIntMin ==
  option.threads # IntMin => UsesWorkers(Expected(option.threads)) /\ ~crashed

\* The host's last call was stop().
Stopped == hostCalls # <<>> /\ hostCalls[Len(hostCalls)] = "stop"

\* C15: stop() does not stop the pipeline.  It leaves the queue open and
\* changes only the capturing flag and the frame source (and signals the
\* status channel); after it the workers still never stall with work left,
\* and at rest every packet pushed, before stop() or after, is dissected and
\* stored.
C15_StopKeepsPipeline ==
  /\ [](/\ ~closed
        /\ ~Quiescent => CanWork
        /\ Quiescent => /\ MaxSeq = analyzed + vpLayers
                        /\ Assigned = DOMAIN seqOf)
  /\ [][hostCalls' = Append(hostCalls, "stop") =>
          /\ pipeVars' = pipeVars
          /\ filterVars' = filterVars
          /\ capturing' = FALSE
          /\ pcap' = "stopped"
          /\ statusPending' = 1]_vars

\* stop() was called while every analyzed packet was still in the queue.
C15_Witness ==
  /\ Stopped
  /\ ~capturing
  /\ Len(queue) = MaxPackets
  /\ MaxSeq = 0

\* The packets that were in the queue when stop() was called are stored.
StoredAfterStop ==
  /\ Stopped
  /\ Quiescent
  /\ analyzed = MaxPackets
  /\ MaxSeq >= MaxPackets

\* The identities of the packets in the queue, in the workers' hands and in
\* the store.
InPipeline ==
  { queue[i].id : i \in DOMAIN queue }
    \cup { dpkt[w].id : w \in { v \in DOMAIN dpkt : dpkt[v] # None } }
    \cup { store[q].id : q \in DOMAIN store }

\* A worker or the destructor can take its next step.
DestroyCanStep ==
  \/ dtor = "dissectorThreads" /\
       \/ \A w \in DOMAIN dpc : dpc[w] = "exit"
       \/ \E w \in DOMAIN dpc : dpc[w] = "pop" \/ CanEnter(w)
              \/ InCallback(w, "insert") \/ InCallback(w, "notify")
              \/ (InCallback(w, "streams") /\ streamDispatcher)
  \/ dtor = "filterThreads"
  \/ dtor = "streamDispatcher" /\
       \/ \A sw \in DOMAIN spc : spc[sw] = "exit"
       \/ \E sw \in DOMAIN spc : spc[sw] \in {"wait", "emit", "vp"}

\* Destruction but for failures: the queue is closed first, nothing pushed
\* after the close reaches the queue or the store, the destructor never
\* waits for a worker that cannot step, and the filter and stream workers go
\* only after the dissector workers.
DestroyOrderly ==
  /\ dtor # "alive" => closed
  /\ closed => InPipeline \subseteq closeMark
  /\ dtor \in {"dissectorThreads", "filterThreads", "streamDispatcher"} /\ ~crashed
       => DestroyCanStep
  /\ dtor \in {"filterThreads", "streamDispatcher", "done"}
       => \A w \in DOMAIN dpc : dpc[w] = "exit"
  /\ dtor \in {"streamDispatcher", "done"} => filterThreads = <<>> /\ orphans = {}
  /\ dtor = "done" => \A sw \in DOMAIN spc : spc[sw] = "exit"

\* C16: destroying the Session terminates: the queue is closed first, every
\* dissector worker observes the closed signal and exits so that joining the
\* dissector pool completes, then every filter worker and every stream worker
\* exits, and no thread fails on the way; pushes made after the close (analyze
\* or vpLayersCb from a still-running stream worker) add nothing to the queue
\* or the store.
C16_DestroyTerminates ==
  /\ DestroyOrderly
  /\ ~crashed
  /\ dtor \in {"dissectorThreads", "filterThreads", "streamDispatcher"} => DestroyCanStep

\* The destructor has returned after a push was dropped by the closed queue.
DestroyedWithDroppedPush ==
  /\ dtor = "done"
  /\ DOMAIN seqOf # closeMark

\* The origin sequences the dispatcher has seen in insert(originSeq, chunks):
\* the ones it has released and the ones it holds.
SeenSeqs == (1 .. dispSeq) \cup DOMAIN dispChunks

\* C17: for every packet taken from the queue the worker calls packetCb once
\* and then streamsCb once, and the seq passed to streamsCb is the sequence
\* the store assigned to that packet: a streamsCb step passes the sequence
\* stored for the worker's packet, which the dispatcher has not seen before
\* and sees from then on.  A packet with no chunks gets its call too, so the
\* dispatcher sees every stored sequence: each stored sequence is seen or its
\* worker is between the two calls, and at rest the seen ones are 1..maxSeq.
C17_CallbackOrder ==
  /\ [](/\ SeenSeqs \subseteq 1 .. MaxSeq
        /\ \A q \in 1 .. MaxSeq :
             \/ q \in SeenSeqs
             \/ \E w \in Workers : dpc[w] \in {"notify", "streams"} /\ dseq[w] = q
        /\ (\A w \in Workers : dpc[w] = "pop") => SeenSeqs = 1 .. MaxSeq)
  /\ [][\A w \in Workers :
          dpc[w] = "streams" /\ dpc'[w] = "pop" =>
            /\ seqOf[dpkt[w].id] = dseq[w]
            /\ store[dseq[w]].id = dpkt[w].id
            /\ dseq[w] \notin SeenSeqs
            /\ SeenSeqs' = SeenSeqs \cup {dseq[w]}]_vars

\* Both packets are stored, the first one without chunks, and the dispatcher
\* has seen both sequences.
C17_Witness ==
  /\ MaxSeq = 2
  /\ store[1].shape = <<>>
  /\ store[2].shape # <<>>
  /\ SeenSeqs = {1, 2}
  /\ \A w \in Workers : dpc[w] = "pop"

\* The pipeline and every filter group are at rest and the loop has run every
\* pending status handler.
Settled ==
  /\ queue = <<>>
  /\ dpc[1] = "pop"
  /\ \A n \in DOMAIN filterThreads : GroupQuiet(n)
  /\ orphans = {}
  /\ statusPending = 0
  /\ hpc = "idle"

\* C18: with a status callback set the host is never left with a stale view:
\* once the pipeline and the filter groups are at rest and the loop has run
\* the pending handlers, the last payload delivered (if anything was raised)
\* has packets = maxSeq, filtered = the size of the result set of exactly the
\* installed groups, and capturing as the last start() or stop() left it; no
\* raise is lost: every raise leaves the channel pending.
C18_NoStaleView ==
  /\ [](statusCb /\ Settled /\ statusRaises > 0 =>
          /\ statusLog # <<>>
          /\ statusLog[Len(statusLog)] =
               [capturing |-> capturing, packets |-> MaxSeq, filtered |-> FilteredSizes])
  /\ [][statusRaises' # statusRaises => statusPending' = 1]_vars

\* At rest with two packets stored and matched by the installed group, after
\* a delivery that began before the last change.
C18_Witness ==
  /\ statusCb
  /\ Settled
  /\ MaxSeq = 2
  /\ "a" \in DOMAIN filterThreads
  /\ FilteredSizes["a"] = 2
  /\ Len(statusLog) = 2
  /\ statusLog[1].packets = 1
  /\ statusLog[2] = [capturing |-> capturing, packets |-> 2, filtered |-> FilteredSizes]

\* C19: in every status payload delivered, filtered[name] <= packets for
\* every group name in it, although the handler reads maxSeq first and the
\* sizes of the result sets afterwards.
C19_FilteredWithinPackets ==
  \A i \in DOMAIN statusLog :
    \A n \in DOMAIN statusLog[i].filtered :
      statusLog[i].filtered[n] <= statusLog[i].packets

\* C20: in every state reachable after a Session is constructed, for any
\* constructor argument, the frame source and the stream dispatcher exist,
\* the thread count is at least 1 and at least one dissector worker runs, so
\* that no host call acts on a missing component.
C20_ComponentsExist ==
  /\ pcap # "null"
  /\ streamDispatcher
  /\ threads >= 1
  /\ DOMAIN dpc # {}
  /\ ~crashed

\* The same for sessions constructed with an option object.
ComponentsExistWithOption ==
  option.object => C20_ComponentsExist

====
